---- MODULE Spec2Model ----
(***************************************************************************)
(* Model of the tdxplot command-line front end (src/cli.py): one run of    *)
(* main(), from popping the filename off sys.argv to displaying the query  *)
(* result or exiting with an error.                                        *)
(*                                                                         *)
(* Python values that may be None, a str or an object are records          *)
(* [kind, val]; the weeks option is a record [kind, n].                    *)
(***************************************************************************)
EXTENDS Integers, Sequences, FiniteSets, TLC

VARIABLES pc, filename, argv, args, report, org, calls, emitted,
          exitcode, exitedIn, stderr

vars == <<pc, filename, argv, args, report, org, calls, emitted,
          exitcode, exitedIn, stderr>>

(* ---------------------------------------------------------------- bounds *)
MaxWeeks == 2
MaxRows == 2

(* ------------------------------------------------------- Python values   *)
NoneV == [kind |-> "None", val |-> ""]
Str(s) == [kind |-> "str", val |-> s]
NoWeeks == [kind |-> "None", n |-> 0]
IntV(k) == [kind |-> "int", n |-> k]

\* truth value of a None / str / object value (None and "" are falsy)
Truthy(v) == v.kind # "None" /\ ~(v.kind = "str" /\ v.val = "")
\* truth value of None / int (None and 0 are falsy)
TruthyInt(w) == w.kind = "int" /\ w.n # 0

(* ------------------------------------------------------------ constants  *)
DATE_FORMATS == <<"%Y-%m-%d", "%m/%d/%Y", "%m/%d/%y", "%d.%m.%Y", "%d.%m.%Y">>
QUERY_TYPES == <<"perweek", "perbuilding", "perroom">>
CanonicalFields == {"Created", "Class Support Building", "Room number"}

(* ------------------------------------------------------------- inputs    *)
\* last element of sys.argv
Filenames == {"", "missing.csv", " report.csv", "notes.txt", "report.csv", "REPORT.CSV"}
\* files on disk
ExistingFiles == {"notes.txt", "report.csv", "REPORT.CSV"}
\* os.path.splitext(f)[-1].lower()
LowerExt(f) ==
    CASE f = "notes.txt" -> ".txt"
      [] f \in {"missing.csv", " report.csv", "report.csv", "REPORT.CSV"} -> ".csv"
      [] OTHER -> ""

BuildingOpts == {NoneV} \cup {Str(s) : s \in {"", " hall a ", "Hall B", "Nowhere"}}
DateOpts == {NoneV} \cup {Str(s) : s \in {"", "2023-01-10", "1/17/23", "bogus"}}
\* --weeks as typed: not given, not an integer literal, or an integer literal
WeeksOpts == {NoWeeks, [kind |-> "text", n |-> 0]}
                 \cup {IntV(k) : k \in (0 - MaxWeeks)..MaxWeeks}
CommandLines == [perweek : BOOLEAN, perbuilding : BOOLEAN, perroom : BOOLEAN,
                 building : BuildingOpts, weeks : WeeksOpts,
                 termstart : DateOpts, termend : DateOpts]

\* building cells of the CSV rows
BuildingCells == {"", "Hall A", "hall a ", "Hall B"}
RowSeqs == UNION {[1..k -> BuildingCells] : k \in 0..MaxRows}

NoArgs == [perweek |-> FALSE, perbuilding |-> FALSE, perroom |-> FALSE,
           building |-> NoneV, weeks |-> NoWeeks,
           termstart |-> NoneV, termend |-> NoneV,
           querytype |-> "None", filename |-> ""]

(* ------------------------------------------------------------ check_file *)
check_file(f) ==
    IF f = "" THEN "No file input provided"
    ELSE IF f \notin ExistingFiles THEN "File not found"
    ELSE IF LowerExt(f) # ".csv" THEN "File is not a CSV file"
    ELSE ""

(* ------------------------------------------------------------ parse_args *)
FlagCount(cl) == (IF cl.perweek THEN 1 ELSE 0) + (IF cl.perbuilding THEN 1 ELSE 0)
                    + (IF cl.perroom THEN 1 ELSE 0)
\* argparse: type=int conversion of --weeks, required mutually exclusive group
parse_error(cl) ==
    IF cl.weeks.kind = "text" THEN "argument -w/--weeks: invalid int value"
    ELSE IF FlagCount(cl) = 0 THEN "one of the arguments --perweek --perbuilding --perroom is required"
    ELSE IF FlagCount(cl) > 1 THEN "argument not allowed with argument"
    ELSE ""
parse_args(cl, f) ==
    [perweek |-> cl.perweek, perbuilding |-> cl.perbuilding, perroom |-> cl.perroom,
     building |-> cl.building, weeks |-> cl.weeks,
     termstart |-> cl.termstart, termend |-> cl.termend,
     querytype |-> "None", filename |-> f]

(* -------------------------------------------------------- set_query_type *)
RECURSIVE set_query_type_loop(_, _)
set_query_type_loop(a, i) ==
    IF i > Len(QUERY_TYPES) THEN [err |-> "", args |-> a]
    ELSE IF a[QUERY_TYPES[i]]
         THEN IF a.querytype # "None"
              THEN [err |-> "Pass exactly one query type argument (e.g. --perweek)", args |-> a]
              ELSE set_query_type_loop([a EXCEPT !.querytype = QUERY_TYPES[i]], i + 1)
         ELSE set_query_type_loop(a, i + 1)

\* plausible slip: the type stored is the one after the flag found
set_query_type_shifted(a) ==
    LET r == set_query_type_loop(a, 1)
        idx == CHOOSE i \in 1..Len(QUERY_TYPES) : QUERY_TYPES[i] = r.args.querytype
    IN IF r.err # "" \/ r.args.querytype = "None" THEN r
       ELSE [r EXCEPT !.args.querytype = QUERY_TYPES[(idx % Len(QUERY_TYPES)) + 1]]

set_query_type(a) == set_query_type_loop(a, 1)

(* --------------------------------------------------------- check_options *)
\* plausible slip: the --perroom stipulation is missing
check_options_no_perroom(a) ==
    IF a.perbuilding /\ Truthy(a.building)
        THEN "Cannot filter to a single building in in a --perbuilding query"
    ELSE IF ~a.perweek /\ a.weeks.kind # "None"
        THEN "Cannot pass --weeks without --perweek"
    ELSE IF TruthyInt(a.weeks) /\ Truthy(a.termend)
        THEN "Cannot pass --weeks and --termend simultaneously"
    ELSE ""

\* plausible slip: the --perbuilding stipulation is missing
check_options_no_perbuilding(a) ==
    IF a.perroom /\ ~Truthy(a.building)
        THEN "No building specified, please specify a building for --perroom using --building [BUILDING_NAME]."
    ELSE IF ~a.perweek /\ a.weeks.kind # "None"
        THEN "Cannot pass --weeks without --perweek"
    ELSE IF TruthyInt(a.weeks) /\ Truthy(a.termend)
        THEN "Cannot pass --weeks and --termend simultaneously"
    ELSE ""

check_options(a) ==
    IF a.perroom /\ ~Truthy(a.building)
        THEN "No building specified, please specify a building for --perroom using --building [BUILDING_NAME]."
    ELSE IF a.perbuilding /\ Truthy(a.building)
        THEN "Cannot filter to a single building in in a --perbuilding query"
    ELSE IF ~a.perweek /\ a.weeks.kind # "None"
        THEN "Cannot pass --weeks without --perweek"
    ELSE IF TruthyInt(a.weeks) /\ Truthy(a.termend)
        THEN "Cannot pass --weeks and --termend simultaneously"
    ELSE ""

(* ------------------------------------------------------------ check_date *)
\* datetime.strptime(text, fmt): the ISO date parsed, or "" when it raises
\* (the name datetime is taken to be the class, re-exported by the star
\* imports of lines 19-21; %Y needs four digits, so "1/17/23" only fits %y)
strptime(text, fmt) ==
    CASE text = "2023-01-10" /\ fmt = "%Y-%m-%d" -> "2023-01-10"
      [] text = "1/17/23" /\ fmt = "%m/%d/%y" -> "2023-01-17"
      [] OTHER -> ""

RECURSIVE check_date_loop(_, _)
check_date_loop(text, i) ==
    IF i > Len(DATE_FORMATS) THEN NoneV
    ELSE IF strptime(text, DATE_FORMATS[i]) # ""
         THEN [kind |-> "datetime", val |-> strptime(text, DATE_FORMATS[i])]
         ELSE check_date_loop(text, i + 1)

check_date(text) ==
    LET date == check_date_loop(text, 1)
    IN IF ~Truthy(date) THEN [err |-> "Date not recognized, try yyyy-mm-dd", date |-> date]
       ELSE [err |-> "", date |-> date]

(* ---------------------------------------------------------- Organization *)
\* str.strip().lower() of a building name
Normalize(s) ==
    CASE s \in {"Hall A", "hall a ", " hall a "} -> "hall a"
      [] s = "Hall B" -> "hall b"
      [] s = "Nowhere" -> "nowhere"
      [] OTHER -> ""

\* the registry is a set of Buildings [key, name]; the name is the first seen
register_building(o, cell) ==
    IF cell = "" \/ (\E b \in o : b.key = Normalize(cell)) THEN o
    ELSE o \cup {[key |-> Normalize(cell), name |-> cell]}

RECURSIVE populate(_, _, _)
populate(o, rows, i) ==
    IF i > Len(rows) THEN o
    ELSE populate(register_building(o, rows[i]), rows, i + 1)

find_building(o, name) ==
    IF \E b \in o : b.key = Normalize(name)
    THEN [kind |-> "Building", val |-> (CHOOSE b \in o : b.key = Normalize(name)).name]
    ELSE NoneV

(* ------------------------------------------------------------ clean_args *)
\* plausible slip: the raw name is kept when the lookup succeeds
clean_args_keeps_name(a, o) ==
    LET ts == IF Truthy(a.termstart) THEN check_date(a.termstart.val)
              ELSE [err |-> "", date |-> a.termstart]
        te == IF Truthy(a.termend) THEN check_date(a.termend.val)
              ELSE [err |-> "", date |-> a.termend]
        b == IF Truthy(a.building) THEN find_building(o, a.building.val) ELSE a.building
    IN IF ts.err # "" THEN [err |-> ts.err, args |-> a]
       ELSE IF te.err # "" THEN [err |-> te.err, args |-> [a EXCEPT !.termstart = ts.date]]
       ELSE IF Truthy(a.building) /\ ~Truthy(b)
            THEN [err |-> "No such building found in report",
                  args |-> [a EXCEPT !.termstart = ts.date, !.termend = te.date, !.building = b]]
       ELSE [err |-> "", args |-> [a EXCEPT !.termstart = ts.date, !.termend = te.date]]

clean_args(a, o) ==
    LET ts == IF Truthy(a.termstart) THEN check_date(a.termstart.val)
              ELSE [err |-> "", date |-> a.termstart]
        te == IF Truthy(a.termend) THEN check_date(a.termend.val)
              ELSE [err |-> "", date |-> a.termend]
        b == IF Truthy(a.building) THEN find_building(o, a.building.val) ELSE a.building
    IN IF ts.err # "" THEN [err |-> ts.err, args |-> a]
       ELSE IF te.err # "" THEN [err |-> te.err, args |-> [a EXCEPT !.termstart = ts.date]]
       ELSE IF Truthy(a.building) /\ ~Truthy(b)
            THEN [err |-> "No such building found in report",
                  args |-> [a EXCEPT !.termstart = ts.date, !.termend = te.date, !.building = b]]
       ELSE [err |-> "", args |-> [a EXCEPT !.termstart = ts.date, !.termend = te.date, !.building = b]]

(* ---------------------------------------------------------- check_report *)
\* plausible slip: --perroom only looks for the building field
check_report_room_unchecked(a, fields) ==
    IF a.querytype = "perweek" /\ "Created" \notin fields
        THEN "Cannot run a tickets-per-week query without Created field present in report"
    ELSE IF a.querytype = "perbuilding" /\ "Class Support Building" \notin fields
        THEN "Cannot run a tickets-per-building query without Class Support Building field present in report"
    ELSE IF a.querytype = "perroom" /\ "Class Support Building" \notin fields
        THEN "Cannot run a tickets-per-room query without Class Support Building and Room number field present in report"
    ELSE ""

check_report(a, fields) ==
    IF a.querytype = "perweek" /\ "Created" \notin fields
        THEN "Cannot run a tickets-per-week query without Created field present in report"
    ELSE IF a.querytype = "perbuilding" /\ "Class Support Building" \notin fields
        THEN "Cannot run a tickets-per-building query without Class Support Building field present in report"
    ELSE IF a.querytype = "perroom"
            /\ ("Class Support Building" \notin fields \/ "Room number" \notin fields)
        THEN "Cannot run a tickets-per-room query without Class Support Building and Room number field present in report"
    ELSE ""

(* ------------------------------------------------------------------ main *)
\* plausible slip: the query runs before the args are cleaned
MainNext_query_first(p) ==
    CASE p = "check_file" -> "parse_args"
      [] p = "parse_args" -> "set_query_type"
      [] p = "set_query_type" -> "check_options"
      [] p = "check_options" -> "Report"
      [] p = "Report" -> "populate"
      [] p = "populate" -> "check_report"
      [] p = "check_report" -> "query"
      [] p = "query" -> "clean_args"
      [] p = "clean_args" -> "display"
      [] p = "display" -> "done"
      [] OTHER -> p

\* the order of the statements of main()
MainNext(p) ==
    CASE p = "check_file" -> "parse_args"
      [] p = "parse_args" -> "set_query_type"
      [] p = "set_query_type" -> "check_options"
      [] p = "check_options" -> "Report"
      [] p = "Report" -> "populate"
      [] p = "populate" -> "check_report"
      [] p = "check_report" -> "clean_args"
      [] p = "clean_args" -> "query"
      [] p = "query" -> "display"
      [] p = "display" -> "done"
      [] OTHER -> p

\* the query function main() calls for a query type
QueryFunction(qt) ==
    CASE qt = "perweek" -> "per_week"
      [] qt = "perbuilding" -> "per_building"
      [] qt = "perroom" -> "per_room"
      [] OTHER -> "None"

Init ==
    /\ pc = "check_file"
    /\ filename \in Filenames
    /\ argv \in CommandLines
    /\ args = NoArgs
    /\ report = [built |-> FALSE, populated |-> FALSE, fields_present |-> {}]
    /\ org = {}
    /\ calls = <<>>
    /\ emitted = <<>>
    /\ exitcode = -1
    /\ exitedIn = "None"
    /\ stderr = ""

\* exit(code) inside function fn after printing msg
Exit(fn, code, msg) ==
    /\ pc' = "exit"
    /\ exitcode' = code
    /\ exitedIn' = fn
    /\ stderr' = msg

Continue ==
    /\ pc' = MainNext(pc)
    /\ UNCHANGED <<exitcode, exitedIn, stderr>>

CheckFile ==
    /\ pc = "check_file"
    /\ IF check_file(filename) # ""
       THEN Exit("check_file", 1, check_file(filename))
       ELSE Continue
    /\ UNCHANGED <<filename, argv, args, report, org, calls, emitted>>

ParseArgs ==
    /\ pc = "parse_args"
    /\ IF parse_error(argv) # ""
       THEN Exit("parse_args", 2, parse_error(argv)) /\ UNCHANGED args
       ELSE Continue /\ args' = parse_args(argv, filename)
    /\ UNCHANGED <<filename, argv, report, org, calls, emitted>>

SetQueryType ==
    /\ pc = "set_query_type"
    /\ LET r == set_query_type(args)
       IN /\ args' = r.args
          /\ IF r.err # "" THEN Exit("set_query_type", 1, r.err) ELSE Continue
    /\ UNCHANGED <<filename, argv, report, org, calls, emitted>>

CheckOptions ==
    /\ pc = "check_options"
    /\ IF check_options(args) # ""
       THEN Exit("check_options", 1, check_options(args))
       ELSE Continue
    /\ UNCHANGED <<filename, argv, args, report, org, calls, emitted>>

NewReport ==
    /\ pc = "Report"
    /\ report' = [report EXCEPT !.built = TRUE]
    /\ Continue
    /\ UNCHANGED <<filename, argv, args, org, calls, emitted>>

Populate ==
    /\ pc = "populate"
    /\ \E fields \in SUBSET CanonicalFields, rows \in RowSeqs, malformed \in BOOLEAN :
          IF malformed
          THEN /\ Exit("populate", 1, "MalformedReportError")
               /\ UNCHANGED <<report, org>>
          ELSE /\ report' = [report EXCEPT !.populated = TRUE, !.fields_present = fields]
               /\ org' = IF "Class Support Building" \in fields
                         THEN populate(org, rows, 1) ELSE org
               /\ Continue
    /\ UNCHANGED <<filename, argv, args, calls, emitted>>

CheckReport ==
    /\ pc = "check_report"
    /\ IF check_report(args, report.fields_present) # ""
       THEN Exit("check_report", 1, check_report(args, report.fields_present))
       ELSE Continue
    /\ UNCHANGED <<filename, argv, args, report, org, calls, emitted>>

CleanArgs ==
    /\ pc = "clean_args"
    /\ LET r == clean_args(args, org)
       IN /\ args' = r.args
          /\ IF r.err # "" THEN Exit("clean_args", 1, r.err) ELSE Continue
    /\ UNCHANGED <<filename, argv, report, org, calls, emitted>>

RunQuery ==
    /\ pc = "query"
    /\ calls' = IF QueryFunction(args.querytype) # "None"
                THEN Append(calls, [fn |-> QueryFunction(args.querytype), args |-> args])
                ELSE calls
    /\ Continue
    /\ UNCHANGED <<filename, argv, args, report, org, emitted>>

Display ==
    /\ pc = "display"
    /\ emitted' = IF calls # <<>>
                  THEN Append(emitted, IF calls[Len(calls)].fn = "per_week"
                                       THEN "view_per_week" ELSE "print")
                  ELSE emitted
    /\ pc' = MainNext(pc)
    /\ exitcode' = 0
    /\ UNCHANGED <<filename, argv, args, report, org, calls, exitedIn, stderr>>

Next ==
    \/ CheckFile
    \/ ParseArgs
    \/ SetQueryType
    \/ CheckOptions
    \/ NewReport
    \/ Populate
    \/ CheckReport
    \/ CleanArgs
    \/ RunQuery
    \/ Display

Spec == Init /\ [][Next]_vars

\* the run always goes on until main() returns or exits
FairSpec == Spec /\ WF_vars(Next)

(* ------------------------------------------------------------ properties *)
\* statements of main() that come after check_options
AfterCheckOptions == {"Report", "populate", "check_report", "clean_args", "query", "display", "done"}
\* statements of main() that come after clean_args
AfterCleanArgs == {"query", "display", "done"}
ErrorExit == pc = "exit" /\ exitcode # 0
Invoked(fn) == \E i \in 1..Len(calls) : calls[i].fn = fn
DateError == "Date not recognized, try yyyy-mm-dd"
NoBuildingError == "No such building found in report"
\* the fields a query type needs in the report
RequiredFields(qt) ==
    CASE qt = "perweek" -> {"Created"}
      [] qt = "perbuilding" -> {"Class Support Building"}
      [] qt = "perroom" -> {"Class Support Building", "Room number"}
      [] OTHER -> {}

\* C1 (safety part): a run that asks for --perroom without a building (absent
\* or empty) never gets past check_options, never exits with success and never
\* invokes per_room; whenever per_room is invoked, args["building"] is the
\* Building that find_building returned, not None and not the raw name.
C1_Safety ==
    /\ (argv.perroom /\ ~Truthy(argv.building))
          => /\ pc \notin AfterCheckOptions
             /\ (pc = "exit" => exitcode # 0)
             /\ ~Invoked("per_room")
    /\ \A i \in 1..Len(calls) :
          calls[i].fn = "per_room"
             => /\ calls[i].args.building.kind = "Building"
                /\ calls[i].args.building = find_building(org, argv.building.val)

\* C1: a run that asks for --perroom without a building (absent or empty)
\* terminates with an error exit and per_room is never invoked; per_room is
\* only ever invoked with the Building object find_building returned.
C1_PerRoomRequiresBuilding ==
    /\ []C1_Safety
    /\ (argv.perroom /\ ~Truthy(argv.building)) ~> ErrorExit

C1_Witness ==
    /\ argv.perroom /\ ~Truthy(argv.building)
    /\ ErrorExit /\ exitedIn = "check_options"
    /\ calls = <<>>

\* C2: a query function is invoked only when the fields it requires are in
\* report.fields_present; a run whose query type and fields_present do not
\* match halts with an error exit in check_report before any query is called.
C2_QueryFieldsPresent ==
    /\ \A i \in 1..Len(calls) :
          /\ calls[i].fn = "per_week" => "Created" \in report.fields_present
          /\ calls[i].fn = "per_building" => "Class Support Building" \in report.fields_present
          /\ calls[i].fn = "per_room" =>
                {"Class Support Building", "Room number"} \subseteq report.fields_present
    /\ (report.populated /\ ~(RequiredFields(args.querytype) \subseteq report.fields_present))
          => /\ calls = <<>>
             /\ \/ pc = "check_report"
                \/ ErrorExit /\ exitedIn = "check_report"

C2_Witness ==
    /\ ErrorExit /\ exitedIn = "check_report"
    /\ args.querytype = "perroom"
    /\ "Class Support Building" \in report.fields_present
    /\ "Room number" \notin report.fields_present
    /\ calls = <<>>

\* C3: every input validation error (bad file, unparseable termstart or
\* termend, conflicting or missing query options) halts the run before
\* Report(filename) is constructed and before report.populate(org).
C3_ValidationBeforeCore ==
    (ErrorExit /\ (\/ exitedIn \in {"check_file", "parse_args", "set_query_type", "check_options"}
                   \/ stderr = DateError))
       => ~report.built /\ ~report.populated

\* C4 as stated: --perbuilding with a non-empty building never gets past
\* check_options, and per_building is only invoked with args["building"]
\* absent (None).
C4_Original ==
    /\ (argv.perbuilding /\ Truthy(argv.building))
          => /\ pc \notin AfterCheckOptions
             /\ (pc = "exit" => exitcode # 0)
             /\ ~Invoked("per_building")
    /\ \A i \in 1..Len(calls) :
          calls[i].fn = "per_building" => calls[i].args.building.kind = "None"

\* C4 (amended): --perbuilding with a non-empty building never gets past
\* check_options and per_building is never invoked; whenever per_building is
\* invoked, args["building"] is absent or the empty string.
C4_PerBuildingNoBuilding ==
    /\ (argv.perbuilding /\ Truthy(argv.building))
          => /\ pc \notin AfterCheckOptions
             /\ (pc = "exit" => exitcode # 0)
             /\ ~Invoked("per_building")
    /\ \A i \in 1..Len(calls) :
          calls[i].fn = "per_building" => ~Truthy(calls[i].args.building)

C4_Witness ==
    /\ argv.perbuilding /\ Truthy(argv.building)
    /\ ErrorExit /\ exitedIn = "check_options"
    /\ stderr = "Cannot filter to a single building in in a --perbuilding query"

\* C5: a run that ends without an error has invoked exactly one query
\* function, exactly once, the one whose flag was given; querytype is one of
\* QUERY_TYPES; a run with more than one query flag never runs a query.
C5_ExactlyOneQuery ==
    /\ Len(calls) <= 1
    /\ pc = "done" =>
          /\ Len(calls) = 1
          /\ \E i \in 1..Len(QUERY_TYPES) :
                /\ args.querytype = QUERY_TYPES[i]
                /\ argv[QUERY_TYPES[i]]
                /\ calls[1].fn = QueryFunction(QUERY_TYPES[i])
          /\ FlagCount(argv) = 1
    /\ FlagCount(argv) > 1 => calls = <<>> /\ pc \notin AfterCheckOptions
                              /\ (pc = "exit" => exitcode # 0)

C5_Witness ==
    /\ pc = "done" /\ exitcode = 0
    /\ argv.perbuilding
    /\ Len(calls) = 1 /\ calls[1].fn = "per_building"

\* C6: when the run exits with an error from check_file, set_query_type,
\* check_options, check_report, check_date or clean_args, no query function
\* has been invoked and nothing has been displayed.
C6_NoOutputOnError ==
    (ErrorExit /\ exitedIn \in {"check_file", "set_query_type", "check_options",
                                "check_report", "clean_args"})
       => calls = <<>> /\ emitted = <<>>

C6_Witness ==
    /\ ErrorExit /\ exitedIn = "clean_args" /\ stderr = NoBuildingError
    /\ report.populated
    /\ calls = <<>> /\ emitted = <<>>

\* C7: every query function is invoked with weeks absent (None) or a
\* positive integer.
C7_WeeksPositive ==
    \A i \in 1..Len(calls) :
       calls[i].args.weeks.kind = "None"
          \/ (calls[i].args.weeks.kind = "int" /\ calls[i].args.weeks.n >= 1)

\* C8: whenever a query function is invoked in a run whose command line
\* supplied a building, args["building"] is the Building find_building
\* returned for that name; when find_building returns None the run halts in
\* clean_args with "No such building found in report" and no query is invoked.
C8_BuildingResolved ==
    /\ \A i \in 1..Len(calls) :
          Truthy(argv.building)
             => /\ calls[i].args.building.kind = "Building"
                /\ calls[i].args.building = find_building(org, argv.building.val)
    /\ (Truthy(argv.building) /\ pc \in AfterCleanArgs)
          => Truthy(find_building(org, argv.building.val))
    /\ (ErrorExit /\ stderr = NoBuildingError)
          => /\ exitedIn = "clean_args"
             /\ ~Truthy(find_building(org, argv.building.val))
             /\ calls = <<>>

C8_Witness ==
    /\ Invoked("per_week")
    /\ argv.building = Str(" hall a ")
    /\ calls[1].args.building = [kind |-> "Building", val |-> "Hall A"]

\* C9: for every integer --weeks, a run with both --weeks and --termend and a
\* run with --weeks but not --perweek never get past check_options, so no
\* query function receives both a weeks value and a termend value.
C9_WeeksExclusive ==
    /\ (argv.weeks.kind = "int" /\ Truthy(argv.termend)) => pc \notin AfterCheckOptions
    /\ (argv.weeks.kind = "int" /\ ~argv.perweek) => pc \notin AfterCheckOptions
    /\ \A i \in 1..Len(calls) :
          ~(calls[i].args.weeks.kind = "int" /\ Truthy(calls[i].args.termend))

\* C10: whenever a query function is invoked with termstart or termend
\* present in the options, "Created" is in report.fields_present.
C10_DateFilterNeedsCreated ==
    \A i \in 1..Len(calls) :
       (Truthy(calls[i].args.termstart) \/ Truthy(calls[i].args.termend))
          => "Created" \in report.fields_present

====
